---- MODULE Spec2Model ----
(***************************************************************************)
(* Wildfire spread and suppression core of fat-sparrow                     *)
(* (src/src/fire/fire_system.py): WindConditions and FireSystem, and the   *)
(* frame loop that drives them (src/src/fire/visualization.py).            *)
(*                                                                         *)
(* Units.  The source computes in floating point; the model uses exact     *)
(* integers in fixed units:                                                *)
(*   temperature  : 1/TempScale degree (COOLING_RATE = 0.05 is one unit)   *)
(*   fuel, humidity, noise : thousandths (FUEL_CONSUMPTION_RATE = 25)      *)
(*   wind speed   : 1/SpeedScale knot; the m/s value is knots * 0.514      *)
(*   direction    : degrees, multiples of 15                               *)
(*   sin, cos     : thousandths, tabulated                                 *)
(***************************************************************************)
EXTENDS Integers, Sequences, FiniteSets, TLC

(* ------------------------------ bounds --------------------------------- *)
\* grid_size argument of FireSystem.__init__ (the default is 150)
GridSize == 13
\* update_frame is called while elapsed_time is below MaxElapsed (seconds)
MaxElapsed == 620

(* ------------------------- program constants --------------------------- *)
IGNITION_TEMP == 300
MAX_TEMP == 800
AMBIENT_TEMP == 25
\* COOLING_RATE = 0.005 * time_per_step = 1/TempScale degree
TempScale == 20
COOLING_RATE == 1
time_per_step == 10
BASE_SPREAD_RATE == 2
\* 0.025 in thousandths
FUEL_CONSUMPTION_RATE == 25
\* temperature added by one successful ignition draw
IGNITE_INCREMENT == 300
\* deployment cap of deploy_suppressants
SUPPRESSANT_CAP == 50
\* the anchor lies 12 cells ahead of the leading edge
LOOK_AHEAD == 12
line_length == 25
LINE_STEP == 3
\* speed unit: 1/SpeedScale knot
SpeedScale == 20
\* FireVisualizer.update_frame: seconds per frame, start of the suppressant
\* phase, end of the simulation
FRAME_DT == 10
SUPPRESSANT_START == 420
END_TIME == 600
MAX_KNOTS == 16
WOBBLE_PERIOD == 20
\* +-15 degrees (pi/12)
MAX_DIR_CHANGE == 15

Deg(t) == t * TempScale

Min(a, b) == IF a <= b THEN a ELSE b
Max(a, b) == IF a >= b THEN a ELSE b
Abs(a) == IF a >= 0 THEN a ELSE -a

\* faulty variant of clip: the upper limit is not applied
clip_lower(x, lo, hi) == Max(x, lo)

\* np.clip(x, lo, hi)
clip(x, lo, hi) == Min(Max(x, lo), hi)

\* Python int() of the rational num/den (den > 0): truncation toward zero
int(num, den) == IF num >= 0 THEN num \div den ELSE -((-num) \div den)

\* faulty variant of round: halves are rounded up
round_half_up(num, den) == (2 * num + den) \div (2 * den)

\* Python round() of the rational num/den (den > 0): round half to even
round(num, den) ==
    LET fl == num \div den
        r2 == 2 * (num % den)
    IN  IF r2 < den THEN fl
        ELSE IF r2 > den THEN fl + 1
        ELSE IF fl % 2 = 0 THEN fl ELSE fl + 1

(* ----------------------------- trigonometry ---------------------------- *)
\* sin of 0, 15, ..., 90 degrees in thousandths
SinTable == <<0, 259, 500, 707, 866, 966, 1000>>

\* np.sin of d degrees (d a multiple of 15), thousandths
Sin1000(d) ==
    LET a == d % 360
    IN  IF a <= 90 THEN SinTable[(a \div 15) + 1]
        ELSE IF a <= 180 THEN SinTable[((180 - a) \div 15) + 1]
        ELSE IF a <= 270 THEN -SinTable[((a - 180) \div 15) + 1]
        ELSE -SinTable[((360 - a) \div 15) + 1]

\* np.cos of d degrees, thousandths
Cos1000(d) == Sin1000(d + 90)

(* ------------------------------ the state ------------------------------ *)
VARIABLES
    grid_size,          \* FireSystem.grid_size
    temperature_grid,   \* [Cells -> temperature in 1/TempScale degree]
    fuel_grid,          \* [Cells -> thousandths]
    humidity_grid,      \* [Cells -> thousandths]
    burning_grid,       \* [Cells -> {0, 1}]
    suppressant_grid,   \* [Cells -> {0, 1}]
    suppressant_count,  \* FireSystem.suppressant_count
    wind,               \* the WindConditions object
    error,              \* the exception a call has raised, "" for none
    elapsed_time,       \* FireVisualizer.elapsed_time, seconds
    suppressant_phase   \* FireVisualizer.suppressant_phase

vars == <<grid_size, temperature_grid, fuel_grid, humidity_grid, burning_grid,
          suppressant_grid, suppressant_count, wind, error, elapsed_time,
          suppressant_phase>>

\* the fields of the FireVisualizer
driver == <<elapsed_time, suppressant_phase>>

grids == <<grid_size, temperature_grid, fuel_grid, humidity_grid,
           burning_grid, suppressant_grid, suppressant_count, error>>

(* ------------------------------- the grid ------------------------------ *)
Idx == 0 .. (grid_size - 1)
Cells == Idx \X Idx
InGrid(i, j) == 0 <= i /\ i < grid_size /\ 0 <= j /\ j < grid_size

(* ------------------------------- the wind ------------------------------ *)
\* base speeds (knots) and base directions (degrees) drawn by generate_initial
BaseKnots == {0, 4, 8, 15, 16}
BaseDirections == {0, 225}
\* dt arguments of WindConditions.update
DtSet == {0, 5, 10, 20}
\* draws of random.uniform(-pi/12, pi/12), degrees
DirectionChanges == {-MAX_DIR_CHANGE, 0, MAX_DIR_CHANGE}
\* draws of random.uniform(-max_variation, max_variation) as a
\* fraction of max_variation
SpeedChangeFractions == {-1, 0, 1}

\* the upper speed limit 16 * 0.514 m/s
MAX_SPEED == MAX_KNOTS * SpeedScale

generate_initial(knots, dir) ==
    [speed |-> knots * SpeedScale, direction |-> dir,
     base_speed |-> knots * SpeedScale, base_direction |-> dir,
     last_wobble |-> 0]

\* faulty variant of WindConditions_update: the wind wobbles on every call
WindConditions_update_always(w, dt, direction_change, frac) ==
    LET lw == w.last_wobble + dt
        max_variation == w.base_speed \div 5
        speed_change  == frac * max_variation
    IN  [w EXCEPT !.last_wobble = IF lw >= WOBBLE_PERIOD THEN 0 ELSE lw,
                  !.direction = w.base_direction + direction_change,
                  !.speed = clip(w.base_speed + speed_change, 0, MAX_SPEED)]

\* WindConditions.update(dt) with the two random draws as arguments
WindConditions_update(w, dt, direction_change, frac) ==
    LET lw == w.last_wobble + dt
    IN  IF lw >= WOBBLE_PERIOD
        THEN LET max_variation == w.base_speed \div 5
                 speed_change  == frac * max_variation
             IN  [w EXCEPT !.last_wobble = 0,
                           !.direction = w.base_direction + direction_change,
                           !.speed = clip(w.base_speed + speed_change,
                                          0, MAX_SPEED)]
        ELSE [w EXCEPT !.last_wobble = lw]

(* ------------------------------ the terrain ---------------------------- *)
\* values of the two noise generators (thousandths): <<terrain, moisture>>
NoiseSamples == {<<-1000, 1000>>}

\* FireSystem._normalize_noise
normalize_noise(value, min_val, max_val) ==
    min_val + ((max_val - min_val) * (value + 1000)) \div 2000

\* humidity and fuel written by _initialize_terrain for one cell
TerrainHumidity(mn) == normalize_noise(mn, 200, 900)
TerrainFuel(tn, mn) ==
    (normalize_noise(tn, 300, 1000)
        * (1000 - (TerrainHumidity(mn) * 600) \div 1000)) \div 1000

(* ------------------------------ start_fire ----------------------------- *)
\* cells set alight by start_fire(position, radius)
FireMask(x, y, radius) ==
    {c \in Cells : LET i == c[1] - x
                       j == c[2] - y
                   IN  i * i + j * j <= radius * radius}

(* -------------------------------- update ------------------------------- *)
Neighbors4 == {<<0, 1>>, <<1, 0>>, <<0, -1>>, <<-1, 0>>}
Neighbors8 == {d \in (-1 .. 1) \X (-1 .. 1) : d # <<0, 0>>}

\* np.where(self.burning_grid > 0)
burning_locations == {c \in Cells : burning_grid[c] > 0}

\* faulty variant of SuppressantAdjacent: the cell itself is tested, not its
\* neighbours
SuppressantAdjacent_self(c) == suppressant_grid[c] > 0

\* first loop of update: a burning cell with suppressant on an in-grid
\* 4-connected neighbour
SuppressantAdjacent(c) ==
    \E d \in Neighbors4 :
        /\ InGrid(c[1] + d[1], c[2] + d[2])
        /\ suppressant_grid[<<c[1] + d[1], c[2] + d[2]>>] > 0

\* faulty variant of ConsumedFuel: burning consumes no fuel
ConsumedFuel_none(c) == fuel_grid[c]

\* faulty variant of ConsumedFuel: the floor of 0 is missing
ConsumedFuel_nofloor(c) == fuel_grid[c] - FUEL_CONSUMPTION_RATE

\* faulty variant of ConsumedFuel: the rate is added
ConsumedFuel_plus(c) == Max(0, fuel_grid[c] + FUEL_CONSUMPTION_RATE)

\* fuel of a burning cell after "Consume fuel"
ConsumedFuel(c) == Max(0, fuel_grid[c] - FUEL_CONSUMPTION_RATE)

\* faulty variant of check_suppressant_line: only the source cell is sampled
check_suppressant_line_source(i1, j1, i2, j2) ==
    suppressant_grid[<<i1, j1>>] > 0

\* FireSystem._check_suppressant_line: the 5 samples of
\* np.linspace((i1, j1), (i2, j2), 5), each rounded to a cell
check_suppressant_line(i1, j1, i2, j2) ==
    \E k \in 0 .. 4 :
        LET ii == round(4 * i1 + (i2 - i1) * k, 4)
            jj == round(4 * j1 + (j2 - j1) * k, 4)
        IN  suppressant_grid[<<ii, jj>>] > 0

\* faulty variant of SpreadDirection: np.arctan2(di, dj), the signs of the
\* meteorological convention dropped
SpreadDirection_unsigned(di, dj) ==
    LET y == di
        x == dj
    IN  IF y = 0 THEN (IF x > 0 THEN 0 ELSE 180)
        ELSE IF y > 0 THEN (IF x > 0 THEN 45 ELSE IF x = 0 THEN 90 ELSE 135)
        ELSE (IF x < 0 THEN 225 ELSE IF x = 0 THEN 270 ELSE 315)

\* np.arctan2(-di, -dj) in degrees, shifted into [0, 360)
SpreadDirection(di, dj) ==
    LET y == -di
        x == -dj
    IN  IF y = 0 THEN (IF x > 0 THEN 0 ELSE 180)
        ELSE IF y > 0 THEN (IF x > 0 THEN 45 ELSE IF x = 0 THEN 90 ELSE 135)
        ELSE (IF x < 0 THEN 225 ELSE IF x = 0 THEN 270 ELSE 315)

\* FireSystem._calculate_wind_alignment, thousandths
calculate_wind_alignment(di, dj, wind_direction) ==
    IF di = 0 /\ dj = 0 THEN 0
    ELSE LET d0 == Abs(SpreadDirection(di, dj) - (wind_direction % 360))
             angle_diff == IF d0 > 180 THEN 360 - d0 ELSE d0
         IN  Cos1000(angle_diff)

\* speed_mult of _spread_fire
SpeedMult(speed) ==
    IF speed < 5 * SpeedScale THEN 1
    ELSE IF speed < 10 * SpeedScale THEN 3
    ELSE 8

\* wind_mult of _spread_fire as a fraction
WindMult(di, dj, w) ==
    LET wind_alignment == calculate_wind_alignment(di, dj, w.direction)
    IN  IF wind_alignment > 700
            THEN [num |-> SpeedMult(w.speed), den |-> 1]
        ELSE IF wind_alignment < -700
            THEN [num |-> 1, den |-> 100 + w.speed]
        ELSE [num |-> SpeedMult(w.speed), den |-> 10]

RECURSIVE GCD(_, _)
GCD(a, b) == IF b = 0 THEN a ELSE GCD(b, a % b)

\* base_prob = (BASE_SPREAD_RATE * time_per_step) / 60, in lowest terms
base_prob ==
    LET n == BASE_SPREAD_RATE * time_per_step
        g == GCD(n, 60)
    IN  [num |-> n \div g, den |-> 60 \div g]

\* spread_prob of _spread_fire for source offset (di, dj) and target t
spread_prob(di, dj, t, w) ==
    LET wm == WindMult(di, dj, w)
        humidity_factor == 1000 - humidity_grid[t]
        fuel_factor == fuel_grid[t]
    IN  [num |-> base_prob.num * wm.num * humidity_factor * fuel_factor,
         den |-> base_prob.den * wm.den * 1000000]

\* faulty variant of SpreadPairs: the spread loop reads the grid it is writing, so
\* a cell beside the fire that may ignite in this step is a source already
SpreadPairs_inplace ==
    {p \in {<<s, <<s[1] + d[1], s[2] + d[2]>>>> :
                s \in {b \in Cells :
                        \/ burning_grid[b] > 0
                        \/ \E n \in burning_locations :
                            Abs(n[1] - b[1]) <= 1 /\ Abs(n[2] - b[2]) <= 1},
                d \in Neighbors8} :
        /\ InGrid(p[2][1], p[2][2])
        /\ burning_grid[p[2]] = 0}

\* the source/target pairs for which _spread_fire reaches the random draw
\* with a target that was not burning before the step
SpreadPairs ==
    {p \in {<<s, <<s[1] + d[1], s[2] + d[2]>>>> :
                s \in {b \in burning_locations : ConsumedFuel(b) > 0},
                d \in Neighbors8} :
        /\ InGrid(p[2][1], p[2][2])
        /\ ~check_suppressant_line(p[1][1], p[1][2], p[2][1], p[2][2])
        /\ burning_grid[p[2]] = 0}

PairProb(p) == spread_prob(p[2][1] - p[1][1], p[2][2] - p[1][2], p[2], wind)

\* faulty variant of PossiblePairs: the draw is compared with <=, so a draw of 0.0
\* succeeds against a probability of 0
PossiblePairs_any(S) == S

\* np.random.random() < spread_prob can come out true (the draw lies in [0,1))
PossiblePairs(S) == {p \in S : PairProb(p).num > 0}
\* ... and cannot come out false
CertainPairs(S) == {p \in S : PairProb(p).num >= PairProb(p).den}

\* temperature of a target after n successful draws on it
RECURSIVE HeatAfter(_, _)
HeatAfter(t, n) ==
    IF n = 0 THEN t
    ELSE HeatAfter(Min(Deg(MAX_TEMP), t + Deg(IGNITE_INCREMENT)), n - 1)

\* the cell becomes burning if some successful draw left it at or above
\* IGNITION_TEMP; the heat only rises, so the last draw decides
IgnitedBy(t, n) == n > 0 /\ HeatAfter(t, n) >= Deg(IGNITION_TEMP)

\* faulty variant of NewTemp: the heat of an ignition is not written to new_temp
NewTemp_unheated(D) ==
    [c \in Cells |->
        IF burning_grid[c] > 0
           /\ (SuppressantAdjacent(c) \/ ConsumedFuel(c) <= 0)
        THEN Max(Deg(AMBIENT_TEMP), Deg(AMBIENT_TEMP) - COOLING_RATE)
        ELSE temperature_grid[c]]

\* number of successful draws of D on target c
Hits(D, c) == Cardinality({p \in D : p[2] = c})

\* faulty variant of NewTemp: a cell that stops burning keeps its heat and
\* only cools by COOLING_RATE
NewTemp_cooling(D) ==
    [c \in Cells |->
        IF burning_grid[c] > 0
        THEN IF SuppressantAdjacent(c) \/ ConsumedFuel(c) <= 0
             THEN Max(Deg(AMBIENT_TEMP), temperature_grid[c] - COOLING_RATE)
             ELSE temperature_grid[c]
        ELSE HeatAfter(temperature_grid[c], Hits(D, c))]

\* new_temp / new_burning at the end of update, D the successful draws
NewTemp(D) ==
    [c \in Cells |->
        IF burning_grid[c] > 0
        THEN IF SuppressantAdjacent(c) \/ ConsumedFuel(c) <= 0
             THEN Max(Deg(AMBIENT_TEMP), Deg(AMBIENT_TEMP) - COOLING_RATE)
             ELSE temperature_grid[c]
        ELSE HeatAfter(temperature_grid[c], Hits(D, c))]

NewBurning(D) ==
    [c \in Cells |->
        IF burning_grid[c] > 0
        THEN IF SuppressantAdjacent(c) \/ ConsumedFuel(c) <= 0 THEN 0 ELSE 1
        ELSE IF IgnitedBy(temperature_grid[c], Hits(D, c)) THEN 1 ELSE 0]

(* -------------------------- deploy_suppressants ------------------------- *)
RECURSIVE SumCoord(_, _)
SumCoord(S, k) ==
    IF S = {} THEN 0
    ELSE LET c == CHOOSE x \in S : TRUE
         IN  c[k] + SumCoord(S \ {c}, k)

\* wind direction vector of deploy_suppressants, thousandths
wind_i(w) == -Sin1000(w.direction)
wind_j(w) == -Cos1000(w.direction)
\* perpendicular vector for the line
perp_i(w) == -wind_j(w)
perp_j(w) == wind_i(w)

\* projection of burning cell c on the wind vector, relative to the
\* centre of fire mass (si / n, sj / n); scaled by 1000 * n
projection(c, n, si, sj, w) ==
    (c[1] * n - si) * wind_i(w) + (c[2] * n - sj) * wind_j(w)

\* row-major order of np.where
RowMajorBefore(a, b) == a[1] < b[1] \/ (a[1] = b[1] /\ a[2] < b[2])

\* faulty variant of furthest_point: the loop compares with >= and keeps the
\* last maximum
furthest_point_last(B, w) ==
    LET n == Cardinality(B)
        proj == [c \in B |->
                    projection(c, n, SumCoord(B, 1), SumCoord(B, 2), w)]
    IN  CHOOSE c \in B :
            \A o \in B :
                \/ proj[o] < proj[c]
                \/ (proj[o] = proj[c] /\ (o = c \/ RowMajorBefore(o, c)))

\* the loop "if projection > max_projection" keeps the first maximum
furthest_point(B, w) ==
    LET n == Cardinality(B)
        proj == [c \in B |->
                    projection(c, n, SumCoord(B, 1), SumCoord(B, 2), w)]
    IN  CHOOSE c \in B :
            \A o \in B :
                \/ proj[o] < proj[c]
                \/ (proj[o] = proj[c] /\ (o = c \/ RowMajorBefore(c, o)))

\* faulty variant of start_point: the line is anchored at the furthest point
\* itself
start_point_nolook(f, w) == <<f[1], f[2]>>

\* start_i, start_j: the anchor LOOK_AHEAD cells ahead of the furthest point
start_point(f, w) ==
    <<int(f[1] * 1000 + wind_i(w) * LOOK_AHEAD, 1000),
      int(f[2] * 1000 + wind_j(w) * LOOK_AHEAD, 1000)>>

\* range(-line_length, line_length + 1, 3)
LineOffsets ==
    [k \in 1 .. ((2 * line_length) \div LINE_STEP + 1) |->
        -line_length + LINE_STEP * (k - 1)]

\* denominator of curve_factor = -(t ** 2) / (3 * line_length) downwind,
\* -(t ** 2) / (6 * line_length) upwind
CurveDen(t) == IF t > 0 THEN 3 * line_length ELSE 6 * line_length

\* point_i, point_j for offset t
line_point(st, t, w) ==
    LET d == CurveDen(t)
    IN  <<int(st[1] * 1000 * d + perp_i(w) * t * d - wind_i(w) * t * t,
              1000 * d),
          int(st[2] * 1000 * d + perp_j(w) * t * d - wind_j(w) * t * t,
              1000 * d)>>

PlusPattern == {<<0, 0>>, <<1, 0>>, <<-1, 0>>, <<0, 1>>, <<0, -1>>}

\* c is an in-grid cell of the plus pattern around point pt
Stamped(c, pt) == <<c[1] - pt[1], c[2] - pt[2]>> \in PlusPattern

\* faulty variant of DeployLoop: the count rises by the number of cells that
\* the plus pattern newly marks
RECURSIVE DeployLoop_percell(_, _, _, _, _)
DeployLoop_percell(k, st, w, sg, cnt) ==
    IF k > Len(LineOffsets) THEN [grid |-> sg, count |-> cnt]
    ELSE LET pt == line_point(st, LineOffsets[k], w)
         IN  IF InGrid(pt[1], pt[2]) /\ cnt < SUPPRESSANT_CAP
             THEN DeployLoop_percell(k + 1, st, w,
                    [c \in Cells |-> IF Stamped(c, pt) THEN 1 ELSE sg[c]],
                    cnt + Cardinality({c \in Cells :
                                        Stamped(c, pt) /\ sg[c] = 0}))
             ELSE DeployLoop_percell(k + 1, st, w, sg, cnt)

\* faulty variant of DeployLoop: the count is not tested inside the loop
RECURSIVE DeployLoop_nocap(_, _, _, _, _)
DeployLoop_nocap(k, st, w, sg, cnt) ==
    IF k > Len(LineOffsets) THEN [grid |-> sg, count |-> cnt]
    ELSE LET pt == line_point(st, LineOffsets[k], w)
         IN  IF InGrid(pt[1], pt[2])
             THEN DeployLoop_nocap(k + 1, st, w,
                                   [c \in Cells |->
                                       IF Stamped(c, pt) THEN 1 ELSE sg[c]],
                                   cnt + 1)
             ELSE DeployLoop_nocap(k + 1, st, w, sg, cnt)

\* the stamping loop from the k-th offset on: sg the suppressant grid and
\* cnt the suppressant count so far
RECURSIVE DeployLoop(_, _, _, _, _)
DeployLoop(k, st, w, sg, cnt) ==
    IF k > Len(LineOffsets) THEN [grid |-> sg, count |-> cnt]
    ELSE LET pt == line_point(st, LineOffsets[k], w)
         IN  IF InGrid(pt[1], pt[2]) /\ cnt < SUPPRESSANT_CAP
             THEN DeployLoop(k + 1, st, w,
                             [c \in Cells |->
                                 IF Stamped(c, pt) THEN 1 ELSE sg[c]],
                             cnt + 1)
             ELSE DeployLoop(k + 1, st, w, sg, cnt)

\* deploy_suppressants(wind) on burning cells B, suppressant grid sg and
\* suppressant count cnt: the grid and the count it leaves
deploy_call(B, w, sg, cnt) ==
    IF cnt >= SUPPRESSANT_CAP THEN [grid |-> sg, count |-> cnt]
    ELSE IF B = {} THEN [grid |-> sg, count |-> cnt]
    ELSE DeployLoop(1, start_point(furthest_point(B, w), w), w, sg, cnt)

\* faulty variant of deploy_result: with no burning cell the line is anchored
\* at the grid centre
deploy_result_centre(w) ==
    IF suppressant_count >= SUPPRESSANT_CAP
        THEN [grid |-> suppressant_grid, count |-> suppressant_count]
    ELSE IF burning_locations = {}
        THEN DeployLoop(1, <<grid_size \div 2, grid_size \div 2>>,
                        w, suppressant_grid, suppressant_count)
    ELSE DeployLoop(1, start_point(furthest_point(burning_locations, w), w),
                    w, suppressant_grid, suppressant_count)

\* faulty variant of deploy_result: the line is stamped on a cleared grid
deploy_result_rebuild(w) ==
    IF suppressant_count >= SUPPRESSANT_CAP
        THEN [grid |-> suppressant_grid, count |-> suppressant_count]
    ELSE IF burning_locations = {}
        THEN [grid |-> suppressant_grid, count |-> suppressant_count]
    ELSE DeployLoop(1, start_point(furthest_point(burning_locations, w), w),
                    w, [c \in Cells |-> 0], suppressant_count)

\* result of deploy_suppressants(wind) in the current state
deploy_result(w) ==
    deploy_call(burning_locations, w, suppressant_grid, suppressant_count)

(* ------------------------------- actions ------------------------------- *)
\* <<position, radius>> arguments passed to start_fire
FireCalls == {<<<<0, 1>>, 1>>, <<<<7, 8>>, 0>>, <<<<2, 4>>, 0>>}
\* the cells on which the model lets a non-certain ignition draw succeed
DrawTargets == {<<1, 3>>, <<2, 4>>, <<6, 7>>, <<8, 8>>}

\* the exception of FireSystem(size): np.zeros((size, size)) raises
\* ValueError for a negative dimension and nothing else in __init__ raises
init_error(size) == IF size < 0 THEN "ValueError" ELSE ""

\* FireSystem(grid_size) for a grid_size of sizes and noise values of
\* noises, and WindConditions.generate_initial().  After a ValueError there
\* is no object: the grids are empty and no method is called.
ConstructTerrain(sizes, knots, directions, noises) ==
    /\ grid_size \in sizes
    /\ error = init_error(grid_size)
    /\ temperature_grid = [c \in Cells |-> 0]
    /\ burning_grid = [c \in Cells |-> 0]
    /\ suppressant_grid = [c \in Cells |-> 0]
    /\ suppressant_count = 0
    /\ \E n \in noises :
        /\ humidity_grid = [c \in Cells |-> TerrainHumidity(n[2])]
        /\ fuel_grid = [c \in Cells |-> TerrainFuel(n[1], n[2])]
    /\ \E k \in knots, d \in directions :
        wind = generate_initial(k, d)
    /\ elapsed_time = 0
    /\ suppressant_phase = FALSE

\* ... on the damp, sparse terrain of NoiseSamples
Construct(sizes, knots, directions) ==
    ConstructTerrain(sizes, knots, directions, NoiseSamples)

\* the fire scenario: a strong south-west wind
Init == Construct({GridSize}, {15}, {225})

\* FireSystem.start_fire(position, radius) for a <<position, radius>> of
\* calls, called when nothing burns
start_fire(calls) ==
    /\ error = ""
    /\ burning_locations = {}
    /\ \E call \in calls :
        /\ \E mask \in {FireMask(call[1][1], call[1][2], call[2])} :
            /\ temperature_grid' =
                [c \in Cells |-> IF c \in mask THEN Deg(MAX_TEMP)
                                 ELSE temperature_grid[c]]
            /\ burning_grid' =
                [c \in Cells |-> IF c \in mask THEN 1 ELSE burning_grid[c]]
    /\ UNCHANGED <<grid_size, fuel_grid, humidity_grid, suppressant_grid,
                   suppressant_count, wind, error>>
    /\ UNCHANGED driver

\* FireSystem.update(wind, dt): D is the set of successful ignition draws,
\* the certain ones and any of the possible ones on the cells of targets
update(targets) ==
    /\ error = ""
    /\ \E S \in {SpreadPairs} :
       \E certain \in {CertainPairs(S)} :
       \E X \in SUBSET {p \in PossiblePairs(S) \ certain :
                            p[2] \in targets} :
       \E D \in {certain \cup X} :
            /\ temperature_grid' = NewTemp(D)
            /\ burning_grid' = NewBurning(D)
    /\ fuel_grid' = [c \in Cells |-> IF burning_grid[c] > 0
                                     THEN ConsumedFuel(c) ELSE fuel_grid[c]]
    /\ UNCHANGED <<grid_size, humidity_grid, suppressant_grid,
                   suppressant_count, wind, error>>
    /\ UNCHANGED driver

\* faulty variant of deploy_suppressants: the stamped cells are also made wet
deploy_suppressants_wet ==
    /\ error = ""
    /\ \E r \in {deploy_result(wind)} :
        /\ suppressant_grid' = r.grid
        /\ suppressant_count' = r.count
        /\ humidity_grid' = [c \in Cells |-> IF r.grid[c] > 0 THEN 1000
                                              ELSE humidity_grid[c]]
    /\ UNCHANGED <<grid_size, temperature_grid, fuel_grid, burning_grid,
                   wind, error>>
    /\ UNCHANGED driver

\* FireSystem.deploy_suppressants(wind)
deploy_suppressants ==
    /\ error = ""
    /\ \E r \in {deploy_result(wind)} :
        /\ suppressant_grid' = r.grid
        /\ suppressant_count' = r.count
    /\ UNCHANGED <<grid_size, temperature_grid, fuel_grid, humidity_grid,
                   burning_grid, wind, error>>
    /\ UNCHANGED driver

\* WindConditions.update(dt): dts, changes and fracs are the values of dt
\* and of the two random draws
wind_update(dts, changes, fracs) ==
    /\ \E dt \in dts, dc \in changes, f \in fracs :
        wind' = WindConditions_update(wind, dt, dc, f)
    /\ UNCHANGED grids
    /\ UNCHANGED driver

\* The active part of update_frame: wind_conditions.update(dt=10.0), then
\* fire_system.update(wind_conditions, dt=10.0) under the wind just updated
\* (the draws are those of PairProb in the next state: wind', and the
\* humidity and fuel of the targets, which the step leaves alone), then, in
\* the suppressant phase, deploy_suppressants(wind_conditions) on the cells
\* burning after the update
active_frame(targets, changes, fracs, phase) ==
    /\ UNCHANGED <<grid_size, error>>
    /\ \E dc \in changes, f \in fracs :
        wind' = WindConditions_update(wind, FRAME_DT, dc, f)
    /\ humidity_grid' = humidity_grid
    /\ fuel_grid' = [c \in Cells |-> IF burning_grid[c] > 0
                                     THEN ConsumedFuel(c) ELSE fuel_grid[c]]
    /\ \E S \in {SpreadPairs} :
       \E certain \in {CertainPairs(S)'} :
       \E X \in SUBSET {p \in PossiblePairs(S)' \ certain :
                            p[2] \in targets} :
       \E D \in {certain \cup X} :
            /\ temperature_grid' = NewTemp(D)
            /\ burning_grid' = NewBurning(D)
    /\ \E r \in {IF phase
                  THEN deploy_call(burning_locations', wind',
                                   suppressant_grid, suppressant_count)
                  ELSE [grid |-> suppressant_grid,
                        count |-> suppressant_count]} :
        /\ suppressant_grid' = r.grid
        /\ suppressant_count' = r.count

\* faulty variant of update_frame: the suppressant phase is not awaited
update_frame_early(targets, changes, fracs) ==
    /\ error = ""
    /\ elapsed_time < MaxElapsed
    /\ elapsed_time' = elapsed_time + FRAME_DT
    /\ suppressant_phase' =
        (suppressant_phase \/ elapsed_time' >= SUPPRESSANT_START)
    /\ IF elapsed_time' >= END_TIME
       THEN UNCHANGED <<grids, wind>>
       ELSE active_frame(targets, changes, fracs, TRUE)

\* faulty variant of update_frame: the end of the simulation is tested after
\* the frame's updates
update_frame_late(targets, changes, fracs) ==
    /\ error = ""
    /\ elapsed_time < MaxElapsed
    /\ elapsed_time' = elapsed_time + FRAME_DT
    /\ suppressant_phase' =
        (suppressant_phase \/ elapsed_time' >= SUPPRESSANT_START)
    /\ IF elapsed_time >= END_TIME
       THEN UNCHANGED <<grids, wind>>
       ELSE active_frame(targets, changes, fracs, suppressant_phase')

\* FireVisualizer.update_frame(frame): the clock, the phase, the end of the
\* simulation, and the active frame
update_frame(targets, changes, fracs) ==
    /\ error = ""
    /\ elapsed_time < MaxElapsed
    /\ elapsed_time' = elapsed_time + FRAME_DT
    /\ suppressant_phase' =
        (suppressant_phase \/ elapsed_time' >= SUPPRESSANT_START)
    /\ IF elapsed_time' >= END_TIME
       THEN UNCHANGED <<grids, wind>>
       ELSE active_frame(targets, changes, fracs, suppressant_phase')

\* The fire scenario: every operation, the wind wobbling on each call and
\* the suppressant line laid once
Next ==
    \/ start_fire(FireCalls)
    \/ update(DrawTargets)
    \/ (suppressant_count = 0 /\ deploy_suppressants)
    \/ wind_update({WOBBLE_PERIOD}, {MAX_DIR_CHANGE}, {1})

Spec == Init /\ [][Next]_vars

\* The wind alone, over every base state and every dt
InitWind == Construct({GridSize}, BaseKnots, BaseDirections)
NextWind == wind_update(DtSet, DirectionChanges, SpeedChangeFractions)
SpecWind == InitWind /\ [][NextWind]_vars

\* Deployment up to the cap: one fire burns down without spreading, is lit
\* again, and the line is laid on every call
NextDeploy ==
    \/ start_fire({<<<<0, 1>>, 1>>})
    \/ update({})
    \/ deploy_suppressants
    \/ wind_update({WOBBLE_PERIOD}, {MAX_DIR_CHANGE}, {1})
SpecDeploy == Init /\ [][NextDeploy]_vars

\* Relighting: a fire is lit beside the suppressant line, and the draws may
\* succeed on the cell start_fire lit and on one of its neighbours
RelightCalls == {<<<<0, 1>>, 1>>, <<<<7, 8>>, 0>>}
RelightTargets == {<<6, 7>>, <<7, 8>>}
NextRelight ==
    \/ start_fire(RelightCalls)
    \/ update(RelightTargets)
    \/ (suppressant_count = 0 /\ deploy_suppressants)
    \/ wind_update({WOBBLE_PERIOD}, {MAX_DIR_CHANGE}, {1})
SpecRelight == Init /\ [][NextRelight]_vars

\* Repeated steps: the relighting scenario in which update is called again
\* and again, as the frame loop does
SpecBurnOut == SpecRelight /\ WF_vars(update(RelightTargets))

\* Dry terrain: high terrain noise and low moisture noise, humidity 0.375
\* and fuel 0.639; the draws succeed only where they are certain, and the
\* line is laid once, before the fire has spread
DryNoise == {<<500, -500>>}
InitDry == ConstructTerrain({GridSize}, {15}, {225}, DryNoise)
NextDry ==
    \/ start_fire({<<<<0, 1>>, 1>>})
    \/ update({})
    \/ (/\ suppressant_count = 0
        /\ Cardinality(burning_locations) <= 4
        /\ deploy_suppressants)
    \/ wind_update({WOBBLE_PERIOD}, {MAX_DIR_CHANGE}, {1})
SpecDry == InitDry /\ [][NextDry]_vars

\* The frame loop on terrain of humidity 0.55 and fuel 0.552, where a cell
\* burns for 23 frames: main lights the fire before the first frame, the
\* draws may carry it to the next cell downwind, and update_frame is called
\* frame after frame
DriverNoise == {<<500, 0>>}
DriverCalls == {<<<<1, 1>>, 0>>}
DriverTargets == {<<2, 2>>}
InitDriver == ConstructTerrain({GridSize}, {15}, {225}, DriverNoise)
NextDriver ==
    \/ (elapsed_time = 0 /\ start_fire(DriverCalls))
    \/ update_frame(DriverTargets, {-MAX_DIR_CHANGE, MAX_DIR_CHANGE}, {1})
SpecDriver == InitDriver /\ [][NextDriver]_vars

\* Caller errors: every grid_size argument, and start_fire positions inside
\* and outside the grid
GridSizes == {-1, 0, 2, GridSize}
IgniteCalls == {<<<<0, 1>>, 1>>, <<<<-1, 1>>, 1>>, <<<<1, GridSize>>, 1>>,
                <<<<GridSize + 7, GridSize + 7>>, 0>>}
NextErrors ==
    \/ start_fire(IgniteCalls)
    \/ update({})
    \/ deploy_suppressants
    \/ wind_update({WOBBLE_PERIOD}, {MAX_DIR_CHANGE}, {1})
SpecErrors == Construct(GridSizes, {15}, {225}) /\ [][NextErrors]_vars

\* The wind over the compass: base directions every 15 degrees
CompassDirections == {15 * k : k \in 0 .. 23}
InitCompass == Construct({GridSize}, {4, 15}, CompassDirections)
NextCompass == wind_update({10, WOBBLE_PERIOD}, DirectionChanges, {0})
SpecCompass == InitCompass /\ [][NextCompass]_vars

(* ======================================================================= *)
(* Properties                                                              *)
(* ======================================================================= *)
\* in-grid neighbours of a cell, written out for the properties
Adjacent8(a, b) ==
    a # b /\ Abs(a[1] - b[1]) <= 1 /\ Abs(a[2] - b[2]) <= 1
Adjacent4(a, b) == Abs(a[1] - b[1]) + Abs(a[2] - b[2]) = 1
Burning(c) == burning_grid[c] > 0
Suppressed(c) == suppressant_grid[c] > 0
\* fuel written by the constructor (the terrain is uniform)
InitialFuel == TerrainFuel(-1000, 1000)

\* a step of FireSystem.update in any of the specifications.  The step
\* properties below read "P \/ ~UpdateStep" for "UpdateStep => P": the
\* cheap disjunct is evaluated first.
UpdateStep == update(DrawTargets)

(* ----------------------------------------------------------------------- *)
\* C1  Suppression blocks ignition: a cell that carries suppressant and is
\* not burning is not burning after an update or a deploy_suppressants call,
\* whatever its neighbours, the wind and the draws.
C1_SuppressionBlocksIgnition ==
    [][\/ \A c \in Cells :
            (Suppressed(c) /\ ~Burning(c)) => burning_grid'[c] = 0
       \/ ~(UpdateStep \/ deploy_suppressants)]_vars

\* a suppressant cell stayed unburnt although a neighbour without
\* suppressant burned beside it for a step and still has fuel
C1_Witness ==
    \E c \in Cells, n \in Cells :
        /\ Adjacent8(c, n)
        /\ Suppressed(c) /\ ~Burning(c) /\ c \in DrawTargets
        /\ ~Suppressed(n)
        /\ fuel_grid[n] > 0 /\ fuel_grid[n] < InitialFuel

(* ----------------------------------------------------------------------- *)
\* C2  A cell that the suppression check extinguishes in a step ignites no
\* neighbour in that step: every cell that becomes burning in an update has
\* an 8-connected neighbour that was burning before, has no suppressant on a
\* 4-connected neighbour, and has fuel left after consumption.
C2_ExtinguishedDoesNotSpread ==
    [][\/ \A c \in Cells :
            (~Burning(c) /\ burning_grid'[c] > 0) =>
                \E n \in Cells :
                    /\ Adjacent8(c, n)
                    /\ Burning(n)
                    /\ fuel_grid'[n] > 0
                    /\ ~\E q \in Cells : Adjacent4(n, q) /\ Suppressed(q)
       \/ ~UpdateStep]_vars

(* ----------------------------------------------------------------------- *)
\* C3  Ignition requires heat: every burning cell has a temperature of at
\* least IGNITION_TEMP.
C3_BurningIsHot ==
    \A c \in Cells :
        Burning(c) => temperature_grid[c] >= IGNITION_TEMP * TempScale

\* a cell ignited by spread burns at exactly IGNITION_TEMP
C3_Witness ==
    \E c \in Cells :
        Burning(c) /\ temperature_grid[c] = IGNITION_TEMP * TempScale

(* ----------------------------------------------------------------------- *)
\* C4  No-fuel starvation: after every update, every cell whose fuel is <= 0
\* is not burning.
C4_NoFuelNoFire ==
    [][\/ \A c \in Cells : fuel_grid'[c] <= 0 => burning_grid'[c] = 0
       \/ ~UpdateStep]_vars

\* a burnt-out draw target lies beside a cell that start_fire lit after the
\* burn-out and that has burned for at least one step with fuel left
C4_Witness ==
    \E c \in DrawTargets, n \in Cells :
        /\ Adjacent8(c, n)
        /\ fuel_grid[c] = 0 /\ ~Burning(c)
        /\ Burning(n) /\ temperature_grid[n] = MAX_TEMP * TempScale
        /\ fuel_grid[n] > 0 /\ fuel_grid[n] < InitialFuel

(* ----------------------------------------------------------------------- *)
\* C5  Fuel monotonicity: no operation increases the fuel of any cell.
C5_FuelNeverIncreases ==
    [][\A c \in Cells : fuel_grid'[c] <= fuel_grid[c]]_vars

\* a cell burned down to the floor of 0 and another is part-way down
C5_Witness ==
    /\ \E c \in Cells : fuel_grid[c] = 0
    /\ \E c \in Cells : fuel_grid[c] > 0 /\ fuel_grid[c] < InitialFuel

(* ----------------------------------------------------------------------- *)
\* the in-grid deployment points of a call made in the current state
CurrentLine ==
    IF burning_locations = {} THEN {}
    ELSE LET st == start_point(furthest_point(burning_locations, wind), wind)
         IN  {pt \in {line_point(st, LineOffsets[k], wind) :
                        k \in 1 .. Len(LineOffsets)} : InGrid(pt[1], pt[2])}

\* C6  Suppressant permanence: no operation clears a suppressant flag.
C6_SuppressantPermanent ==
    [][\A c \in Cells : Suppressed(c) => suppressant_grid'[c] > 0]_vars

\* suppressant laid for an earlier wind direction is still there after the
\* line for the current direction was laid, a fire burned out and was lit
\* again
C6_Witness ==
    /\ CurrentLine # {}
    /\ \A pt \in CurrentLine : Suppressed(pt)
    /\ \E c \in Cells :
        /\ Suppressed(c)
        /\ \A pt \in CurrentLine : c # pt /\ ~Adjacent4(c, pt)
    /\ \E c \in Cells : Burning(c) /\ fuel_grid[c] = 0

(* ----------------------------------------------------------------------- *)
\* C7  Deployment budget: suppressant_count never exceeds the cap of 50.
C7_DeploymentBudget == suppressant_count <= 50

\* the cap was reached in the middle of a line: a deployment point of the
\* current line is left without suppressant
C7_Witness ==
    /\ suppressant_count = 50
    /\ \E pt \in CurrentLine : ~Suppressed(pt)

(* ----------------------------------------------------------------------- *)
\* C8  Wind bounds: the current speed lies in [0, 16 knots * 0.514 m/s].
C8_WindBounds == wind.speed >= 0 /\ wind.speed <= 16 * SpeedScale

\* a wobble pushed a speed below the limit up to the limit (clipped)
C8_Witness ==
    /\ wind.base_speed < 16 * SpeedScale
    /\ wind.speed = 16 * SpeedScale
    /\ wind.direction # wind.base_direction

(* ----------------------------------------------------------------------- *)
\* C9  Suppression check: a cell that burns before an update and has an
\* in-grid 4-connected neighbour with suppressant is, after the update, not
\* burning and at AMBIENT_TEMP.
C9_SuppressionCheck ==
    [][\/ \A c \in Cells :
            (Burning(c) /\ \E q \in Cells : Adjacent4(c, q) /\ Suppressed(q))
                => /\ burning_grid'[c] = 0
                   /\ temperature_grid'[c] = AMBIENT_TEMP * TempScale
       \/ ~UpdateStep]_vars

\* a cell with fuel left that was lit by start_fire beside suppressant and
\* put out by the next update, after a single step of burning
C9_Witness ==
    \E c \in Cells :
        /\ ~Burning(c) /\ ~Suppressed(c)
        /\ temperature_grid[c] = AMBIENT_TEMP * TempScale
        /\ fuel_grid[c] = InitialFuel - FUEL_CONSUMPTION_RATE
        /\ \E q \in Cells : Adjacent4(c, q) /\ Suppressed(q)

(* ----------------------------------------------------------------------- *)
\* C10  Read-before-write spread: every cell that becomes burning in an
\* update is an 8-connected neighbour of a cell that was burning before it.
C10_SpreadOneCellPerStep ==
    [][\/ \A c \in Cells :
            (~Burning(c) /\ burning_grid'[c] > 0) =>
                \E n \in Cells : Adjacent8(c, n) /\ Burning(n)
       \/ ~UpdateStep]_vars

\* fire lit by start_fire spread to a neighbour and from it, in a later
\* step, to a cell that is no neighbour of the cells start_fire lit
C10_Witness ==
    \E a \in Cells, b \in Cells :
        /\ Adjacent8(a, b)
        /\ Burning(a) /\ temperature_grid[a] = IGNITION_TEMP * TempScale
        /\ Burning(b) /\ temperature_grid[b] = IGNITION_TEMP * TempScale
        /\ \A n \in Cells :
            Adjacent8(b, n) => temperature_grid[n] # MAX_TEMP * TempScale
        /\ \E n \in Cells :
            Adjacent8(a, n) /\ temperature_grid[n] = MAX_TEMP * TempScale

(* ----------------------------------------------------------------------- *)
\* a cell that burned and was put out by the suppression check: it has fuel
\* left, which a burnt-out cell has not, and is at AMBIENT_TEMP, which a
\* cell that never burned is not (the constructor writes 0)
Extinguished(c) ==
    /\ ~Burning(c)
    /\ fuel_grid[c] > 0
    /\ temperature_grid[c] = AMBIENT_TEMP * TempScale

\* C11  EXTINGUISHED is terminal: a cell that was burning and was put out by
\* an adjacent suppressant cell is not burning after any later update.
C11_ExtinguishedIsTerminal ==
    [][\/ \A c \in Cells : Extinguished(c) => burning_grid'[c] = 0
       \/ ~update(RelightTargets)]_vars

(* ----------------------------------------------------------------------- *)
\* C12  Temperature range: every cell's temperature lies between
\* AMBIENT_TEMP and MAX_TEMP, from construction on.
C12_TemperatureRange ==
    \A c \in Cells :
        /\ temperature_grid[c] >= AMBIENT_TEMP * TempScale
        /\ temperature_grid[c] <= MAX_TEMP * TempScale

(* ----------------------------------------------------------------------- *)
\* C13  Out-of-bounds ignite is rejected: a start_fire call whose position
\* lies outside the grid signals an error and changes no grid field.
C13_OutOfBoundsIgniteRejected ==
    [][\A call \in IgniteCalls :
            (~InGrid(call[1][1], call[1][2]) /\ start_fire({call}))
                => /\ error' # ""
                   /\ UNCHANGED <<temperature_grid, fuel_grid, humidity_grid,
                                  burning_grid, suppressant_grid>>]_vars

(* ----------------------------------------------------------------------- *)
\* C16  Invalid grid size is fatal: construction with a zero or negative
\* grid_size has raised an error.
C16_InvalidGridSizeFatal == grid_size <= 0 => error # ""

(* ----------------------------------------------------------------------- *)
\* C14  deploy_suppressants is a no-op in its guarded cases: from a state
\* where suppressant_count has reached the cap or no cell burns, no call
\* changes the suppressant grid or suppressant_count.
C14_GuardedDeployIsNoOp ==
    [][(suppressant_count >= 50 \/ burning_locations = {})
            => UNCHANGED <<suppressant_grid, suppressant_count>>]_vars

\* between two deployments the fire has burned out: nothing burns, the
\* count is below the cap and the calls made here changed nothing
C14_Witness ==
    /\ burning_locations = {}
    /\ suppressant_count > 0 /\ suppressant_count < 50
    /\ \E c \in Cells : fuel_grid[c] = 0

(* ----------------------------------------------------------------------- *)
\* C15  Write separation: update leaves suppressant, suppressant_count,
\* humidity and the wind unchanged; deploy_suppressants leaves temperature,
\* fuel, burning, humidity and the wind unchanged; no operation changes
\* humidity.
C15_WriteSeparation ==
    [][/\ humidity_grid' = humidity_grid
       /\ \/ UNCHANGED <<suppressant_grid, suppressant_count, wind>>
          \/ ~UpdateStep
       /\ \/ UNCHANGED <<temperature_grid, fuel_grid, burning_grid, wind>>
          \/ ~deploy_suppressants]_vars

\* the line has been laid, the wind has wobbled and a fire that spread to a
\* neighbour is burning its fuel down: every operation has written its
\* fields
C15_Witness ==
    /\ suppressant_count > 0
    /\ \E c \in Cells : Suppressed(c)
    /\ wind.direction # wind.base_direction
    /\ \E c \in Cells :
        /\ Burning(c) /\ fuel_grid[c] < InitialFuel
        /\ temperature_grid[c] = IGNITION_TEMP * TempScale

(* ----------------------------------------------------------------------- *)
\* C17  Fuel consumption per step: an update lowers the fuel of every
\* burning cell by exactly FUEL_CONSUMPTION_RATE, floored at 0, leaves the
\* fuel of every other cell unchanged, and a cell whose fuel reaches 0 is
\* not burning after the update.
C17_FuelConsumption ==
    [][\/ \A c \in Cells :
            /\ fuel_grid'[c] >= 0
            /\ Burning(c) =>
                /\ fuel_grid[c] >= FUEL_CONSUMPTION_RATE
                    => fuel_grid'[c] = fuel_grid[c] - FUEL_CONSUMPTION_RATE
                /\ fuel_grid[c] < FUEL_CONSUMPTION_RATE => fuel_grid'[c] = 0
                /\ fuel_grid'[c] = 0 => burning_grid'[c] = 0
            /\ ~Burning(c) => fuel_grid'[c] = fuel_grid[c]
       \/ ~UpdateStep]_vars

\* a cell burned out on the floor: its last step took less than the rate
\* (the initial fuel is no multiple of it), while a cell lit later by
\* spread still burns part-way down
C17_Witness ==
    /\ InitialFuel % FUEL_CONSUMPTION_RATE # 0
    /\ \E c \in Cells :
        /\ fuel_grid[c] = 0 /\ ~Burning(c)
        /\ temperature_grid[c] = AMBIENT_TEMP * TempScale
    /\ \E c \in Cells :
        /\ Burning(c) /\ fuel_grid[c] > 0 /\ fuel_grid[c] < InitialFuel
        /\ temperature_grid[c] = IGNITION_TEMP * TempScale

(* ----------------------------------------------------------------------- *)
\* C18  Stamping and counting: a deploy_suppressants call that starts with
\* a fire and a count below 50 stamps the computed points that are inside
\* the grid, in order, until the count is 50; each stamped point marks the
\* point and its in-grid 4-neighbours and adds exactly 1 to the count, and
\* nothing else changes: points outside the grid mark and count nothing.
\* (pt: the computed points of the call, by offset; inside: the offsets
\* whose point is in the grid; stamped: those reached below the cap.)
C18_StampingAndCounting ==
    [][\/ ~(burning_locations # {} /\ suppressant_count < 50)
       \/ ~deploy_suppressants
       \/ \E st \in {start_point(furthest_point(burning_locations, wind),
                                 wind)} :
          \E pt \in {[k \in 1 .. Len(LineOffsets) |->
                        line_point(st, LineOffsets[k], wind)]} :
          \E inside \in {{k \in 1 .. Len(LineOffsets) :
                            pt[k][1] \in Idx /\ pt[k][2] \in Idx}} :
          \E stamped \in {{k \in inside :
                            suppressant_count
                              + Cardinality({h \in inside : h < k}) < 50}} :
              /\ suppressant_count' =
                    suppressant_count + Cardinality(stamped)
              /\ \A c \in Cells :
                    suppressant_grid'[c] =
                        IF \E k \in stamped :
                              Abs(c[1] - pt[k][1]) + Abs(c[2] - pt[k][2]) <= 1
                        THEN 1 ELSE suppressant_grid[c]]_vars

\* the line of the current state is laid, one of its points lies on the
\* border of the grid (a part of its plus pattern falls outside), and the
\* points stamped so far outnumber the cells that carry suppressant: points
\* were stamped on cells already marked
C18_Witness ==
    /\ CurrentLine # {}
    /\ \E p \in CurrentLine :
        /\ Suppressed(p)
        /\ \E d \in PlusPattern : ~InGrid(p[1] + d[1], p[2] + d[2])
    /\ suppressant_count > Cardinality({c \in Cells : Suppressed(c)})

(* ----------------------------------------------------------------------- *)
\* projection of a cell on the wind vector (-sin dir, -cos dir), without the
\* centroid; thousandths
WindProjection(c) == c[1] * wind_i(wind) + c[2] * wind_j(wind)

\* the burning cells of greatest projection on the wind vector
LeadingCells ==
    {b \in burning_locations :
        \A o \in burning_locations : WindProjection(o) <= WindProjection(b)}

\* C19  Leading edge and anchor: when a cell burns, the cell that
\* deploy_suppressants selects is a burning cell of greatest projection on
\* the wind vector, the first such cell in row-major order, and the anchor
\* is that cell moved 12 cells along the wind vector, truncated toward 0.
C19_LeadingEdgeAndAnchor ==
    burning_locations # {} =>
        \E f \in {furthest_point(burning_locations, wind)} :
        \E st \in {start_point(f, wind)} :
            /\ f \in LeadingCells
            /\ \A o \in LeadingCells : o = f \/ RowMajorBefore(f, o)
            /\ \A x \in 1 .. 2 :
                \E ahead \in {f[x] * 1000
                                + 12 * (IF x = 1 THEN wind_i(wind)
                                                 ELSE wind_j(wind))} :
                    IF ahead >= 0
                    THEN st[x] * 1000 <= ahead /\ ahead < (st[x] + 1) * 1000
                    ELSE (st[x] - 1) * 1000 < ahead /\ ahead <= st[x] * 1000

\* two burning cells tie for the greatest projection, and the line anchored
\* ahead of the first of them has been laid
C19_Witness ==
    /\ Cardinality(LeadingCells) >= 2
    /\ CurrentLine # {}
    /\ \A pt \in CurrentLine : Suppressed(pt)

(* ----------------------------------------------------------------------- *)
\* C20  Line extent: the offsets of the candidate points of a call are
\* spaced 3 apart and span from -25 to +25, both extremes included.
C20_LineExtent ==
    burning_locations # {} =>
        /\ \A k \in 1 .. (Len(LineOffsets) - 1) :
                LineOffsets[k + 1] - LineOffsets[k] = 3
        /\ \E k \in 1 .. Len(LineOffsets) : LineOffsets[k] = -25
        /\ \E k \in 1 .. Len(LineOffsets) : LineOffsets[k] = 25

(* ----------------------------------------------------------------------- *)
\* C23  Piecewise-constant wind: an update(dt) call changes speed and
\* direction only if the accumulated time plus dt reaches 20 s, and then
\* resets the accumulator to 0; otherwise it adds dt to the accumulator and
\* leaves speed and direction alone; no call changes base_speed or
\* base_direction.  With dt = 10 a call from accumulator 0 does not wobble
\* and the next one does.
C23_PiecewiseConstantWind ==
    [][/\ wind'.base_speed = wind.base_speed
       /\ wind'.base_direction = wind.base_direction
       /\ \A dt \in DtSet :
            wind_update({dt}, DirectionChanges, SpeedChangeFractions) =>
                IF wind.last_wobble + dt >= 20
                THEN wind'.last_wobble = 0
                ELSE /\ wind'.last_wobble = wind.last_wobble + dt
                     /\ wind'.speed = wind.speed
                     /\ wind'.direction = wind.direction
       /\ wind_update({10}, DirectionChanges, SpeedChangeFractions) =>
            /\ wind.last_wobble = 0 =>
                    /\ wind'.last_wobble = 10
                    /\ wind'.speed = wind.speed
                    /\ wind'.direction = wind.direction
            /\ wind.last_wobble = 10 => wind'.last_wobble = 0]_vars

\* after a wobble that changed speed and direction, a call that did not
\* reach 20 s has added its dt and kept both
C23_Witness ==
    /\ wind.last_wobble > 0
    /\ wind.speed # wind.base_speed
    /\ wind.direction # wind.base_direction

(* ----------------------------------------------------------------------- *)
\* the cell on which the midpoint sample of a diagonal pair falls: round()
\* takes each half to the even one of the two coordinates
EvenOf(a, b) == IF a % 2 = 0 THEN a ELSE b
MidCell(s, t) == <<EvenOf(s[1], t[1]), EvenOf(s[2], t[2])>>

\* C24 as claimed  The line-of-sight check is redundant beyond the
\* endpoints: for every in-grid source and each in-grid 8-neighbour it
\* reports blocked exactly when the source or the target carries
\* suppressant.
C24_LineOfSightRedundant ==
    \A s \in Cells, d \in Neighbors8 :
        InGrid(s[1] + d[1], s[2] + d[2]) =>
            (check_suppressant_line(s[1], s[2], s[1] + d[1], s[2] + d[2])
                <=> (Suppressed(s) \/ Suppressed(<<s[1] + d[1], s[2] + d[2]>>)))

\* C24 as amended  The check reports blocked exactly when the source, the
\* target or, for a diagonal neighbour, the cell of the even row and the
\* even column of the pair carries suppressant; for orthogonal neighbours
\* the endpoints decide alone.
C24_LineOfSightCells ==
    \A s \in Cells, d \in Neighbors8 :
        InGrid(s[1] + d[1], s[2] + d[2]) =>
            \E t \in {<<s[1] + d[1], s[2] + d[2]>>} :
                check_suppressant_line(s[1], s[2], t[1], t[2])
                    <=> \/ Suppressed(s)
                        \/ Suppressed(t)
                        \/ /\ d[1] # 0 /\ d[2] # 0
                           /\ Suppressed(MidCell(s, t))

\* a diagonal pair without suppressant on either end is blocked by a third
\* cell
C24_Witness ==
    \E s \in Cells, d \in {<<-1, -1>>, <<-1, 1>>, <<1, -1>>, <<1, 1>>} :
        /\ InGrid(s[1] + d[1], s[2] + d[2])
        /\ ~Suppressed(s)
        /\ ~Suppressed(<<s[1] + d[1], s[2] + d[2]>>)
        /\ Suppressed(MidCell(s, <<s[1] + d[1], s[2] + d[2]>>))
        /\ check_suppressant_line(s[1], s[2], s[1] + d[1], s[2] + d[2])

(* ----------------------------------------------------------------------- *)
\* dt arguments of FireSystem.update(wind, dt), seconds; update never reads
\* its dt
StepDts == {5, 10, 20}

\* C25  Ignition probability formula: for every source/target pair and
\* every dt argument, the probability used in the step is
\* (BASE_SPREAD_RATE * dt / 60) * wind_mult * (1 - humidity) * fuel of the
\* target.  (Both sides are divided by (1 - humidity) * fuel, in millionths,
\* which is positive.)
C25_IgnitionProbability ==
    \A dt \in StepDts :
        \A p \in SpreadPairs :
            \E q \in {PairProb(p)} :
            \E wm \in {WindMult(p[2][1] - p[1][1], p[2][2] - p[1][2], wind)} :
            \E hf \in {(1000 - humidity_grid[p[2]]) * fuel_grid[p[2]]} :
                hf > 0 =>
                    (q.num \div hf) * 60 * wm.den
                        = BASE_SPREAD_RATE * dt * wm.num * (q.den \div 1000000)

(* ----------------------------------------------------------------------- *)
Sign(x) == IF x > 0 THEN 1 ELSE IF x < 0 THEN -1 ELSE 0

\* C26  Downwind convention shared by engine and planner: for every
\* neighbour offset the alignment of _calculate_wind_alignment is the
\* cosine of the angle between the offset and the planner's wind vector
\* (to 0.002: |offset| * alignment = offset . wind vector); and for a wind
\* direction that is a multiple of 45 degrees the offset of alignment 1 is
\* the grid direction of the wind vector, along which the anchor lies
\* ahead of every cell.
C26_SharedDownwindConvention ==
    /\ \A d \in Neighbors8 :
        \E a \in {calculate_wind_alignment(d[1], d[2], wind.direction)} :
        \E dot \in {d[1] * wind_i(wind) + d[2] * wind_j(wind)} :
        \E norm \in {IF d[1] # 0 /\ d[2] # 0 THEN 1414 ELSE 1000} :
            Abs(a * norm - dot * 1000) <= 2000
    /\ wind.direction % 45 = 0 =>
        \E dw \in {<<Sign(wind_i(wind)), Sign(wind_j(wind))>>} :
            /\ \A d \in Neighbors8 :
                calculate_wind_alignment(d[1], d[2], wind.direction) = 1000
                    <=> d = dw
            /\ \A f \in Cells :
                \E st \in {start_point(f, wind)} :
                    (st[1] - f[1]) * dw[1] + (st[2] - f[2]) * dw[2] >= 12

\* a wobble has turned the wind from its base direction into a diagonal of
\* the grid
C26_Witness ==
    /\ wind.direction % 90 = 45
    /\ wind.direction # wind.base_direction
    /\ wind.last_wobble > 0

(* ----------------------------------------------------------------------- *)
\* C27  Burning is equivalent to being hot: a cell is burning if and only if
\* its temperature is at least IGNITION_TEMP, and every cell that is not
\* burning has the initial temperature 0 or exactly AMBIENT_TEMP.
C27_BurningIffHot ==
    \A c \in Cells :
        /\ Burning(c) <=> temperature_grid[c] >= Deg(IGNITION_TEMP)
        /\ ~Burning(c) => temperature_grid[c] \in {0, Deg(AMBIENT_TEMP)}

\* a draw has lit an extinguished cell from ambient temperature, beside a
\* cell still at its initial temperature and one cooled to ambient
C27_Witness ==
    /\ \E b \in Cells :
        /\ Burning(b)
        /\ temperature_grid[b] = Deg(AMBIENT_TEMP + IGNITE_INCREMENT)
    /\ \E a \in Cells : ~Burning(a) /\ temperature_grid[a] = Deg(AMBIENT_TEMP)
    /\ \E z \in Cells : ~Burning(z) /\ temperature_grid[z] = 0

(* ----------------------------------------------------------------------- *)
\* steps for which a cell can still burn: one per FUEL_CONSUMPTION_RATE of
\* fuel, rounded up, and one more for a burning cell without fuel
StepsLeft(c) ==
    (fuel_grid[c] + FUEL_CONSUMPTION_RATE - 1) \div FUEL_CONSUMPTION_RATE
        + (IF Burning(c) /\ fuel_grid[c] = 0 THEN 1 ELSE 0)

\* StepsLeft summed over the cells of row i from column j on, and over the
\* rows from i on
RECURSIVE RowStepsLeft(_, _)
RowStepsLeft(i, j) ==
    IF j >= grid_size THEN 0
    ELSE StepsLeft(<<i, j>>) + RowStepsLeft(i, j + 1)

RECURSIVE SumStepsLeft(_)
SumStepsLeft(i) ==
    IF i >= grid_size THEN 0
    ELSE RowStepsLeft(i, 0) + SumStepsLeft(i + 1)

BurnSteps == SumStepsLeft(0)

\* C28  The fire always dies out: under repeated steps, with deployments in
\* between, a state with a burning cell leads to a state with none, which
\* persists as long as start_fire is not called; every update lowers the
\* fuel of each burning cell or extinguishes it, so each update with a
\* burning cell lowers the number of burn steps left, which is at most the
\* total fuel divided by FUEL_CONSUMPTION_RATE plus the number of cells.
C28_FireDiesOut ==
    /\ (burning_locations # {}) ~> (burning_locations = {})
    /\ [][\/ burning_locations # {}
          \/ burning_locations' = {}
          \/ start_fire(RelightCalls)]_vars
    /\ [][\/ /\ \A c \in burning_locations :
                    fuel_grid'[c] < fuel_grid[c] \/ burning_grid'[c] = 0
             /\ burning_locations # {} => BurnSteps' < BurnSteps
          \/ ~update(RelightTargets)]_vars
    /\ [](BurnSteps * FUEL_CONSUMPTION_RATE
            <= Cardinality(Cells) * (InitialFuel + FUEL_CONSUMPTION_RATE))

\* the fire is out: one cell burnt its fuel up, another was extinguished
\* with fuel left
C28_Witness ==
    /\ burning_locations = {}
    /\ \E c \in Cells : fuel_grid[c] = 0
    /\ \E c \in Cells : Extinguished(c)

(* ----------------------------------------------------------------------- *)
\* C29  The ignition probability is a valid probability: for every pair
\* that reaches the draw, spread_prob lies in [0, 1].
C29_ValidProbability ==
    \A p \in SpreadPairs :
        \E q \in {PairProb(p)} : 0 <= q.num /\ q.num <= q.den

(* ----------------------------------------------------------------------- *)
\* C30  Suppressant is only placed ahead of the fire: every cell of the plus
\* patterns that a deploy_suppressants call stamps lies strictly farther
\* along the wind vector than every burning cell, a call marks no burning
\* cell, and no step other than start_fire makes a cell both burning and
\* suppressed.
C30_SuppressantAheadOfFire ==
    /\ [](\A pt \in CurrentLine :
            \A d \in PlusPattern :
                \E c \in {<<pt[1] + d[1], pt[2] + d[2]>>} :
                    InGrid(c[1], c[2]) =>
                        \A b \in burning_locations :
                            WindProjection(c) > WindProjection(b))
    /\ [][\/ \A c \in Cells :
                (suppressant_grid'[c] > suppressant_grid[c]) => ~Burning(c)
          \/ ~deploy_suppressants]_vars
    /\ [][\/ \E c \in Cells : Burning(c) /\ Suppressed(c)
          \/ \A c \in Cells : ~(burning_grid'[c] > 0 /\ suppressant_grid'[c] > 0)
          \/ start_fire(FireCalls)]_vars

\* the line was laid ahead of a fire that has spread and still burns
C30_Witness ==
    /\ suppressant_count > 0
    /\ \E b \in burning_locations :
        temperature_grid[b] = Deg(IGNITION_TEMP)
    /\ \A c \in Cells :
        Suppressed(c) =>
            \A b \in burning_locations : WindProjection(c) > WindProjection(b)

(* ----------------------------------------------------------------------- *)
\* C21  Driver gating of suppression: before 420 s the suppressant phase is
\* off, suppressant_count is 0 and the suppressant grid is empty; the
\* suppressant phase never reverts; and an active frame of the suppressant
\* phase updates the wind, then the fire, then deploys: the fuel of the
\* burning cells is consumed, and the cells it stamps belong to the line
\* for the wind and the burning cells of the end of the frame, which grows
\* the count if a point of that line is in the grid.
C21_DriverGating ==
    /\ [](elapsed_time < SUPPRESSANT_START =>
            /\ ~suppressant_phase
            /\ suppressant_count = 0
            /\ \A c \in Cells : suppressant_grid[c] = 0)
    /\ [][suppressant_phase => suppressant_phase']_vars
    /\ [][\/ ~(/\ elapsed_time' = elapsed_time + FRAME_DT
                /\ elapsed_time' < END_TIME
                /\ suppressant_phase')
          \/ /\ \E dc \in {-MAX_DIR_CHANGE, MAX_DIR_CHANGE} :
                    wind' = WindConditions_update(wind, FRAME_DT, dc, 1)
             /\ \A c \in burning_locations : fuel_grid'[c] = ConsumedFuel(c)
             /\ \E line \in {CurrentLine'} :
                    /\ \A c \in Cells :
                        suppressant_grid'[c] > suppressant_grid[c] =>
                            \E pt \in line : Stamped(c, pt)
                    /\ (line # {} /\ suppressant_count < SUPPRESSANT_CAP)
                            => suppressant_count' > suppressant_count
                    /\ line = {} => suppressant_count' = suppressant_count]_vars

\* the suppressant phase has laid part of the line ahead of a fire that
\* still burns
C21_Witness ==
    /\ elapsed_time >= SUPPRESSANT_START /\ elapsed_time < END_TIME
    /\ suppressant_phase
    /\ suppressant_count > 0 /\ suppressant_count < SUPPRESSANT_CAP
    /\ burning_locations # {}

(* ----------------------------------------------------------------------- *)
\* C22  Driver termination: a frame that brings elapsed_time to 600 s or
\* beyond changes no grid field, not suppressant_count and not the wind;
\* the clock moves by 10 s per frame, so the fire steps are those of the
\* frames that end before 600 s.
C22_DriverTermination ==
    /\ [][elapsed_time' >= END_TIME => UNCHANGED <<grids, wind>>]_vars
    /\ [][\/ elapsed_time' = elapsed_time
          \/ elapsed_time' = elapsed_time + FRAME_DT]_vars
    /\ [][\/ UNCHANGED <<grids, wind>>
          \/ elapsed_time' < END_TIME]_vars

\* frames were called after the end; the wind stands where the last active
\* frame left it, on a terrain that burned and carries suppressant
C22_Witness ==
    /\ elapsed_time > END_TIME
    /\ wind.last_wobble = FRAME_DT
    /\ suppressant_count > 0
    /\ \E c \in Cells : fuel_grid[c] = 0

====
